---- MODULE Spec2Model ----
(***************************************************************************)
(* Model of the cerk AMQP port (cerk_port_amqp/src/port_amqp.rs): the main *)
(* loop of port_amqp_start, the consumer listener tasks spawned by         *)
(* setup_connection, the pending-delivery table they share, and the        *)
(* transport (basic_ack / basic_nack / basic_publish) and kernel effects   *)
(* of every step.                                                          *)
(***************************************************************************)
EXTENDS Integers, Sequences, FiniteSets, TLC

\* ---------------------------------------------------------------- bounds
\* number of broker connections the port establishes in one run
MaxConn == 2
\* number of deliveries the broker makes to the port's consumers in one run
MaxDeliveries == 2
\* number of messages the kernel puts into a component's inbox
MaxInbox == 3

\* names of the queues / exchanges that configurations mention
ConsumeNames == {"q1", "q2"}
PublishNames == {"x1", "x2"}
\* external CloudEvent ids carried by inbound payloads
EventIds == {"a"}
\* InternalServerId of the port
PortId == "amqp"

\* ------------------------------------------------------- kernel types
DeliveryGuarantee == {"Unspecified", "BestEffort", "AtLeastOnce"}

requires_acknowledgment(g) == g \notin {"Unspecified", "BestEffort"}

ProcessingResult == {"Successful", "TransientError", "PermanentError"}

\* DeliveryGuarantee::try_from(&Config): a recognised token names a variant
try_from(token) ==
    IF token \in DeliveryGuarantee
    THEN [ok |-> TRUE, value |-> token]
    ELSE [ok |-> FALSE, value |-> "Unspecified"]

\* ------------------------------------------------------ configuration
\* "absent" stands for a map without the delivery_guarantee key
try_get_delivery_option(entry) ==
    IF entry.delivery_guarantee = "absent"
    THEN [ok |-> TRUE, value |-> "Unspecified"]
    ELSE try_from(entry.delivery_guarantee)

\* Option<Channel>: None
NoChannel == [conn |-> 0, name |-> ""]

\* Option<AmqpOptions>: None
NoOptions == [set |-> FALSE, consume_channels |-> <<>>, publish_channels |-> <<>>]

\* the HashMap::insert of build_config's loops
MapInsert(m, k, v) == [x \in DOMAIN m \cup {k} |-> IF x = k THEN v ELSE m[x]]

\* one loop of build_config over a Config::Vec of channel maps: the map of
\* channel options, or failure at the first entry that does not parse
RECURSIVE build_channels(_, _)
build_channels(entries, acc) ==
    IF entries = <<>> THEN [ok |-> TRUE, value |-> acc]
    ELSE LET e == Head(entries)
             g == try_get_delivery_option(e)
         IN  IF ~e.is_map THEN [ok |-> FALSE, value |-> acc]
             ELSE IF ~g.ok THEN [ok |-> FALSE, value |-> acc]
             ELSE IF ~e.has_name THEN [ok |-> FALSE, value |-> acc]
             ELSE build_channels(Tail(entries),
                      MapInsert(acc, e.name,
                          [delivery_guarantee |-> g.value, channel |-> NoChannel]))

build_config(config) ==
    IF config.variant # "HashMap" THEN [ok |-> FALSE, value |-> NoOptions]
    ELSE IF ~config.has_uri THEN [ok |-> FALSE, value |-> NoOptions]
    ELSE LET c == build_channels(config.consume_channels, <<>>)
             p == build_channels(config.publish_channels, <<>>)
         IN  IF c.ok /\ p.ok
             THEN [ok |-> TRUE,
                   value |-> [set |-> TRUE, consume_channels |-> c.value,
                              publish_channels |-> p.value]]
             ELSE [ok |-> FALSE, value |-> NoOptions]

\* ------------------------------------------------------------- inputs
Entry(n, g) == [is_map |-> TRUE, has_name |-> TRUE, name |-> n, delivery_guarantee |-> g]

ConfigTokens == {"absent", "AtLeastOnce"}

\* channel lists naming each queue / exchange at most once
ChannelVecs(n1, n2) ==
    {<<>>}
    \cup {<<Entry(n, g)>> : n \in {n1, n2}, g \in ConfigTokens}
    \cup {<<Entry(n1, g1), Entry(n2, g2)>> : g1 \in ConfigTokens, g2 \in ConfigTokens}

GoodConfig(cv, pv) ==
    [variant |-> "HashMap", has_uri |-> TRUE, consume_channels |-> cv, publish_channels |-> pv]

BadConfigs ==
    { [variant |-> "String", has_uri |-> FALSE, consume_channels |-> <<>>, publish_channels |-> <<>>],
      [variant |-> "HashMap", has_uri |-> FALSE, consume_channels |-> <<>>, publish_channels |-> <<>>],
      GoodConfig(<<[is_map |-> TRUE, has_name |-> FALSE, name |-> "", delivery_guarantee |-> "absent"]>>, <<>>),
      GoodConfig(<<Entry("q1", "unrecognized")>>, <<>>) }

\* q1 is consumed with acknowledgments, q2 without
ConsumeVecs ==
    { <<>>,
      <<Entry("q1", "AtLeastOnce")>>,
      <<Entry("q2", "absent")>>,
      <<Entry("q1", "AtLeastOnce"), Entry("q2", "absent")>> }

ConsumeConfigs == {GoodConfig(cv, <<>>) : cv \in ConsumeVecs}
PublishConfigs == {GoodConfig(<<>>, pv) : pv \in ChannelVecs("x1", "x2")}

\* ---------------------------------------------------------------- state
VARIABLES
    running,               \* the thread of port_amqp_start has not panicked
    connection_option,     \* 0 = None, else the id of the live Connection
    configuration_option,  \* Option<AmqpOptions>
    pending_deliveries,    \* event id -> PendingDelivery
    listeners,             \* the detached consumer tasks, per (connection, queue)
    nconn,                 \* connections established so far
    origin,                \* history: event id -> the delivery last admitted under it
    resolved,              \* history: ids whose outcome was handled since their admission
    out,                   \* the effects of the latest step
    lock,                  \* the thread holding the Mutex of the table
    main_pc,               \* where the main loop of port_amqp_start stands
    amqp_inbox,            \* the AMQP port's mailbox: messages waiting, number taken
    listener,              \* unix-socket port: Option<UnixListener>, 0 = None
    stream,                \* unix-socket port: a client connection is being read
    unix_pc,               \* unix-socket port: where its loop stands
    inbox,                 \* unix-socket port: messages waiting in its inbox
    router_pc,             \* broadcast router: where start_routing stands
    router_inbox,          \* broadcast router: messages the kernel sent to its inbox
    router_sent            \* broadcast router: messages it sent to the kernel

\* the broadcast router
router_vars == <<router_pc, router_inbox, router_sent>>

\* the unix-socket input port
unix_vars == <<listener, stream, unix_pc, inbox>>

\* the components next to the AMQP port
outside_amqp == <<unix_vars, router_vars>>

\* the AMQP port
amqp_vars == <<running, connection_option, configuration_option, pending_deliveries,
               listeners, nconn, origin, resolved, lock, main_pc, amqp_inbox>>

vars == <<running, connection_option, configuration_option, pending_deliveries,
          listeners, nconn, origin, resolved, out, lock, main_pc, amqp_inbox, outside_amqp>>

Conns == 1..MaxConn

\* deliveries the consumers in S have taken so far
RECURSIVE Delivered(_)
Delivered(S) ==
    IF S = {} THEN 0
    ELSE LET x == CHOOSE y \in S : TRUE
         IN  (IF listeners[x].pc = "none" THEN 0 ELSE listeners[x].next_tag - 1)
             + Delivered(S \ {x})

BrokerDelivers == Delivered(Conns \X ConsumeNames) < MaxDeliveries

NoListener == [pc |-> "none", delivery_guarantee |-> "Unspecified", next_tag |-> 0,
               event_id |-> "", delivery_tag |-> 0]

NoMsg == [type |-> "none"]

Effects(by, msg, acts, sent) == [by |-> by, msg |-> msg, acts |-> acts, sent |-> sent]

\* the Mutex is free
NoHolder == [conn |-> 0, name |-> "free"]

\* the main loop is at inbox.receive()
AtReceive == [pc |-> "receive", event_id |-> "", result |-> ""]

Init ==
    /\ running = TRUE
    /\ connection_option = 0
    /\ configuration_option = NoOptions
    /\ pending_deliveries = <<>>
    /\ listeners = [c \in Conns, n \in ConsumeNames |-> NoListener]
    /\ nconn = 0
    /\ origin = <<>>
    /\ resolved = {}
    /\ out = Effects("init", NoMsg, <<>>, <<>>)
    /\ lock = NoHolder
    /\ main_pc = AtReceive
    /\ amqp_inbox = [queue |-> <<>>, taken |-> 0]
    /\ listener = 0
    /\ stream = FALSE
    /\ unix_pc = "receive_timeout"
    /\ inbox = <<>>
    /\ router_pc = "start"
    /\ router_inbox = <<>>
    /\ router_sent = <<>>

\* ---------------------------------------------------- transport effects
\* one call on a lapin Channel, as the broker sees it
Act(op, channel, tag, requeue, confirmation) ==
    [op |-> op, channel |-> channel, delivery_tag |-> tag, requeue |-> requeue,
     confirmation |-> confirmation]

Handle(c, n) == [conn |-> c, name |-> n]

\* ------------------------------------------------------------ listeners
\* get_event_id with a single dash as separator
get_event_id_one_dash(event_id, delivery_tag) == event_id \o "-" \o ToString(delivery_tag)

get_event_id(event_id, delivery_tag) == event_id \o "--" \o ToString(delivery_tag)

IncomingCloudEvent(id, event_id, cloud_event, guarantee) ==
    [type |-> "IncomingCloudEvent", routing_id |-> id, event_id |-> event_id,
     cloud_event |-> cloud_event, delivery_guarantee |-> guarantee]

NewListener(g) ==
    [pc |-> "wait", delivery_guarantee |-> g, next_tag |-> 1, event_id |-> "",
     delivery_tag |-> 0]

\* receive_message sending before it has stored the entry
receive_message_insert_unregistered(c, n, e) ==
    LET l == listeners[c, n]
        t == l.next_tag
        event_id == get_event_id(e, t)
    IN  /\ pending_deliveries' = pending_deliveries
        /\ origin' = MapInsert(origin, event_id,
                         [channel |-> Handle(c, n), delivery_tag |-> t,
                          delivery_guarantee |-> l.delivery_guarantee])
        /\ resolved' = resolved \ {event_id}
        /\ listeners' = [listeners EXCEPT ![c, n] =
                            [l EXCEPT !.pc = "send", !.next_tag = t + 1,
                                      !.event_id = e, !.delivery_tag = t]]
        /\ out' = Effects("listener",
                          [type |-> "Delivery", channel |-> Handle(c, n),
                           event_id |-> event_id,
                           already_in_table |-> event_id \in DOMAIN pending_deliveries],
                          <<>>, <<>>)

\* receive_message ignoring what HashMap::insert returns: no error is logged
receive_message_insert_unreported(c, n, e) ==
    LET l == listeners[c, n]
        t == l.next_tag
        event_id == get_event_id(e, t)
    IN  /\ pending_deliveries' =
               MapInsert(pending_deliveries, event_id,
                         [consume_channel_id |-> n, delivery_tag |-> t])
        /\ origin' = MapInsert(origin, event_id,
                         [channel |-> Handle(c, n), delivery_tag |-> t,
                          delivery_guarantee |-> l.delivery_guarantee])
        /\ resolved' = resolved \ {event_id}
        /\ listeners' = [listeners EXCEPT ![c, n] =
                            [l EXCEPT !.pc = "send", !.next_tag = t + 1,
                                      !.event_id = e, !.delivery_tag = t]]
        /\ out' = Effects("listener",
                          [type |-> "Delivery", channel |-> Handle(c, n),
                           event_id |-> event_id,
                           already_in_table |-> FALSE],
                          <<>>, <<>>)

\* receive_message up to the insert: consumer.next() yields delivery number
\* next_tag whose payload is the CloudEvent with id e; the entry is stored
receive_message_insert(c, n, e) ==
    LET l == listeners[c, n]
        t == l.next_tag
        event_id == get_event_id(e, t)
    IN  /\ pending_deliveries' =
               MapInsert(pending_deliveries, event_id,
                         [consume_channel_id |-> n, delivery_tag |-> t])
        /\ origin' = MapInsert(origin, event_id,
                         [channel |-> Handle(c, n), delivery_tag |-> t,
                          delivery_guarantee |-> l.delivery_guarantee])
        /\ resolved' = resolved \ {event_id}
        /\ listeners' = [listeners EXCEPT ![c, n] =
                            [l EXCEPT !.pc = "send", !.next_tag = t + 1,
                                      !.event_id = e, !.delivery_tag = t]]
        /\ out' = Effects("listener",
                          [type |-> "Delivery", channel |-> Handle(c, n),
                           event_id |-> event_id,
                           already_in_table |-> event_id \in DOMAIN pending_deliveries],
                          <<>>, <<>>)

ListenerAdmit ==
    \E c \in Conns, n \in ConsumeNames, e \in EventIds :
        /\ listeners[c, n].pc = "wait"
        /\ BrokerDelivers
        /\ receive_message_insert(c, n, e)
        /\ UNCHANGED <<running, connection_option, configuration_option, nconn,
                       lock, main_pc, amqp_inbox, outside_amqp>>

\* the payload is not a JSON CloudEvent: receive_message bails, the loop goes on
ListenerMalformed ==
    \E c \in Conns, n \in ConsumeNames :
        /\ listeners[c, n].pc = "wait"
        /\ BrokerDelivers
        /\ listeners' = [listeners EXCEPT ![c, n].next_tag = @ + 1]
        /\ out' = Effects("listener",
                          [type |-> "Malformed", channel |-> Handle(c, n)], <<>>, <<>>)
        /\ UNCHANGED <<running, connection_option, configuration_option,
                       pending_deliveries, nconn, origin, resolved,
                       lock, main_pc, amqp_inbox, outside_amqp>>

\* the payload is not UTF-8: from_utf8(..).unwrap() panics and the task, with
\* its consumer, is gone
ListenerInvalidUtf8 ==
    \E c \in Conns, n \in ConsumeNames :
        /\ listeners[c, n].pc = "wait"
        /\ BrokerDelivers
        /\ listeners' = [listeners EXCEPT ![c, n].next_tag = @ + 1,
                                          ![c, n].pc = "panicked"]
        /\ out' = Effects("listener",
                          [type |-> "InvalidUtf8", channel |-> Handle(c, n)], <<>>, <<>>)
        /\ UNCHANGED <<running, connection_option, configuration_option,
                       pending_deliveries, nconn, origin, resolved,
                       lock, main_pc, amqp_inbox, outside_amqp>>

\* the rest of receive_message: sender.send(IncomingCloudEvent(..))
ListenerSend ==
    \E c \in Conns, n \in ConsumeNames :
        LET l == listeners[c, n] IN
        /\ l.pc = "send"
        /\ listeners' = [listeners EXCEPT ![c, n] =
                            [l EXCEPT !.pc = "wait", !.event_id = "", !.delivery_tag = 0]]
        /\ out' = Effects("listener",
                          [type |-> "Send", channel |-> Handle(c, n)], <<>>,
                          <<IncomingCloudEvent(PortId,
                                get_event_id(l.event_id, l.delivery_tag),
                                l.event_id, l.delivery_guarantee)>>)
        /\ UNCHANGED <<running, connection_option, configuration_option,
                       pending_deliveries, nconn, origin, resolved,
                       lock, main_pc, amqp_inbox, outside_amqp>>

\* ------------------------------------------------------ setup_connection
\* the options with every channel opened on connection c
OpenChannels(options, c) ==
    [set |-> TRUE,
     consume_channels |->
         [n \in DOMAIN options.consume_channels |->
             [options.consume_channels[n] EXCEPT !.channel = Handle(c, n)]],
     publish_channels |->
         [n \in DOMAIN options.publish_channels |->
             [options.publish_channels[n] EXCEPT !.channel = Handle(c, n)]]]

\* the listener tasks spawned for the consume channels in S
Spawn(options, c, S) ==
    [x \in Conns \X ConsumeNames |->
        IF x[1] = c /\ x[2] \in S
        THEN NewListener(options.consume_channels[x[2]].delivery_guarantee)
        ELSE listeners[x]]

\* sets of consume channels that can have been set up when a later await fails
FailedSpawnSets(names) == {S \in SUBSET names : S # names \/ names = {}}

ConfigUpdatedMsg(parsed, ok) == [type |-> "ConfigUpdated", parsed |-> parsed, ok |-> ok]

\* the ConfigUpdated arm without its else branch: a failed set-up leaves the
\* previous connection and options in place
ConfigUpdated_keeps_connection_on_failure(configs) ==
    /\ running
    /\ \E config \in configs :
        LET b == build_config(config) IN
        IF ~b.ok
        THEN \* build_config failed: panic!(e)
             /\ running' = FALSE
             /\ out' = Effects("main", ConfigUpdatedMsg(FALSE, FALSE), <<>>, <<>>)
             /\ UNCHANGED <<connection_option, configuration_option, pending_deliveries,
                            listeners, nconn, origin, resolved,
                       lock, main_pc, outside_amqp>>
        ELSE \/ \* every await succeeded
                /\ nconn < MaxConn
                /\ nconn' = nconn + 1
                /\ connection_option' = nconn + 1
                /\ configuration_option' = OpenChannels(b.value, nconn + 1)
                /\ listeners' = Spawn(b.value, nconn + 1, DOMAIN b.value.consume_channels)
                /\ out' = Effects("main", ConfigUpdatedMsg(TRUE, TRUE), <<>>, <<>>)
                /\ UNCHANGED <<running, pending_deliveries, origin, resolved,
                       lock, main_pc, outside_amqp>>
             \/ \* connect or a channel set-up failed after S was spawned
                \E S \in FailedSpawnSets(DOMAIN b.value.consume_channels) :
                    /\ S # {} => nconn < MaxConn
                    /\ nconn' = IF S = {} THEN nconn ELSE nconn + 1
                    /\ UNCHANGED <<connection_option, configuration_option>>
                    /\ listeners' = Spawn(b.value, nconn + 1, S)
                    /\ out' = Effects("main", ConfigUpdatedMsg(TRUE, FALSE), <<>>, <<>>)
                    /\ UNCHANGED <<running, pending_deliveries, origin, resolved,
                       lock, main_pc, outside_amqp>>

ConfigUpdated(configs) ==
    /\ running
    /\ \E config \in configs :
        LET b == build_config(config) IN
        IF ~b.ok
        THEN \* build_config failed: panic!(e)
             /\ running' = FALSE
             /\ out' = Effects("main", ConfigUpdatedMsg(FALSE, FALSE), <<>>, <<>>)
             /\ UNCHANGED <<connection_option, configuration_option, pending_deliveries,
                            listeners, nconn, origin, resolved,
                       lock, main_pc, outside_amqp>>
        ELSE \/ \* every await succeeded
                /\ nconn < MaxConn
                /\ nconn' = nconn + 1
                /\ connection_option' = nconn + 1
                /\ configuration_option' = OpenChannels(b.value, nconn + 1)
                /\ listeners' = Spawn(b.value, nconn + 1, DOMAIN b.value.consume_channels)
                /\ out' = Effects("main", ConfigUpdatedMsg(TRUE, TRUE), <<>>, <<>>)
                /\ UNCHANGED <<running, pending_deliveries, origin, resolved,
                       lock, main_pc, outside_amqp>>
             \/ \* connect or a channel set-up failed after S was spawned
                \E S \in FailedSpawnSets(DOMAIN b.value.consume_channels) :
                    /\ S # {} => nconn < MaxConn
                    /\ nconn' = IF S = {} THEN nconn ELSE nconn + 1
                    /\ connection_option' = 0
                    /\ configuration_option' = NoOptions
                    /\ listeners' = Spawn(b.value, nconn + 1, S)
                    /\ out' = Effects("main", ConfigUpdatedMsg(TRUE, FALSE), <<>>, <<>>)
                    /\ UNCHANGED <<running, pending_deliveries, origin, resolved,
                       lock, main_pc, outside_amqp>>

\* ------------------------------------------------------------ publishing
\* what the broker can answer to one basic_publish: a channel in confirm mode
\* (confirm_select was called for it in setup_connection) answers ack or
\* nack, another channel answers NotRequested; any publish can fail
BrokerAnswers(channel_options) ==
    IF requires_acknowledgment(channel_options.delivery_guarantee)
    THEN {"error", "ack", "nack"}
    ELSE {"error", "not_requested"}

\* the orders in which a HashMap's iterator can yield the keys in S
Orders(S) == {o \in [1..Cardinality(S) -> S] : \A i, j \in DOMAIN o : i # j => o[i] # o[j]}

\* send_cloud_event with the is_ack() test lost: any confirmation passes
RECURSIVE send_cloud_event_any_confirmation(_, _, _, _)
send_cloud_event_any_confirmation(order, publish_channels, answer, acts) ==
    IF order = <<>> THEN [ok |-> TRUE, acts |-> acts]
    ELSE LET name == Head(order)
             options == publish_channels[name]
             published == Append(acts, Act("basic_publish", options.channel, 0, FALSE,
                                           answer[name]))
         IN  IF options.channel = NoChannel THEN [ok |-> FALSE, acts |-> acts]
             ELSE IF answer[name] = "error" THEN [ok |-> FALSE, acts |-> published]
             ELSE send_cloud_event_any_confirmation(Tail(order), publish_channels,
                                                    answer, published)

\* send_cloud_event with `result?` turned into `result;`: a failure is
\* dropped and the loop goes on to the next channel
RECURSIVE send_cloud_event_ignores_failure(_, _, _, _)
send_cloud_event_ignores_failure(order, publish_channels, answer, acts) ==
    IF order = <<>> THEN [ok |-> TRUE, acts |-> acts]
    ELSE LET name == Head(order)
             options == publish_channels[name]
             published == Append(acts, Act("basic_publish", options.channel, 0, FALSE,
                                           answer[name]))
         IN  IF options.channel = NoChannel
             THEN send_cloud_event_ignores_failure(Tail(order), publish_channels,
                                                   answer, acts)
             ELSE send_cloud_event_ignores_failure(Tail(order), publish_channels,
                                                   answer, published)

\* send_cloud_event over the publish channels in iteration order `order`,
\* the broker answering answer[name]: the publishes made and the Result
RECURSIVE send_cloud_event(_, _, _, _)
send_cloud_event(order, publish_channels, answer, acts) ==
    IF order = <<>> THEN [ok |-> TRUE, acts |-> acts]
    ELSE LET name == Head(order)
             options == publish_channels[name]
             published == Append(acts, Act("basic_publish", options.channel, 0, FALSE,
                                           answer[name]))
         IN  IF options.channel = NoChannel THEN [ok |-> FALSE, acts |-> acts]
             ELSE IF answer[name] = "error" THEN [ok |-> FALSE, acts |-> published]
             ELSE IF ~requires_acknowledgment(options.delivery_guarantee)
                     \/ answer[name] = "ack"
                  THEN send_cloud_event(Tail(order), publish_channels, answer, published)
                  ELSE [ok |-> FALSE, acts |-> published]

OutgoingCloudEventProcessed(id, event_id, result) ==
    [type |-> "OutgoingCloudEventProcessed", routing_id |-> id, event_id |-> event_id,
     result |-> result]

OutgoingIds == {"out-1"}
ArgsGuarantees == {"BestEffort", "AtLeastOnce"}

OutgoingCloudEvent ==
    /\ running
    /\ \E event_id \in OutgoingIds, g \in ArgsGuarantees :
        LET msg == [type |-> "OutgoingCloudEvent", event_id |-> event_id,
                    delivery_guarantee |-> g,
                    configured |-> configuration_option.set,
                    result |-> ""]
        IN
        IF configuration_option.set
        THEN LET pc == configuration_option.publish_channels IN
             \E order \in Orders(DOMAIN pc) :
             \E answer \in [DOMAIN pc -> {"error", "ack", "nack", "not_requested"}] :
                /\ \A n \in DOMAIN pc : answer[n] \in BrokerAnswers(pc[n])
                /\ LET r == send_cloud_event(order, pc, answer, <<>>)
                       result == IF r.ok THEN "Successful" ELSE "TransientError"
                   IN  out' = Effects("main", [msg EXCEPT !.result = result], r.acts,
                                IF requires_acknowledgment(g)
                                THEN <<OutgoingCloudEventProcessed(PortId, event_id, result)>>
                                ELSE <<>>)
        ELSE out' = Effects("main", msg, <<>>, <<>>)
    /\ UNCHANGED <<running, connection_option, configuration_option, pending_deliveries,
                   listeners, nconn, origin, resolved,
                       lock, main_pc, amqp_inbox, outside_amqp>>

\* ------------------------------------------------------------- resolving
\* ack_nack_pending_event with the lookup defaulted instead of checked: an
\* id without entry is rejected with tag 0 on an open consume channel
ack_nack_pending_event_default_entry(options, pending, event_id, result) ==
    IF event_id \notin DOMAIN pending
    THEN IF \E n \in DOMAIN options.consume_channels : TRUE
         THEN LET n == CHOOSE x \in DOMAIN options.consume_channels : TRUE
              IN  <<Act("basic_nack", options.consume_channels[n].channel, 0, FALSE, "")>>
         ELSE <<>>
    ELSE LET pending_event == pending[event_id]
             channel == options.consume_channels[pending_event.consume_channel_id].channel
         IN  IF ~options.set
                \/ pending_event.consume_channel_id \notin DOMAIN options.consume_channels
             THEN <<>>
             ELSE <<Act(IF result = "Successful" THEN "basic_ack" ELSE "basic_nack",
                        channel, pending_event.delivery_tag, result = "TransientError", "")>>

\* ack_nack_pending_event: the transport calls it makes (the table is only
\* read, through pending_deliveries.get)
ack_nack_pending_event(options, pending, event_id, result) ==
    IF event_id \notin DOMAIN pending THEN <<>>
    ELSE IF ~options.set THEN <<>>
    ELSE LET pending_event == pending[event_id] IN
         IF pending_event.consume_channel_id \notin DOMAIN options.consume_channels THEN <<>>
         ELSE LET channel == options.consume_channels[pending_event.consume_channel_id].channel IN
              IF channel = NoChannel THEN <<>>
              ELSE IF result = "Successful"
                   THEN <<Act("basic_ack", channel, pending_event.delivery_tag, FALSE, "")>>
              ELSE IF result = "TransientError"
                   THEN <<Act("basic_nack", channel, pending_event.delivery_tag, TRUE, "")>>
              ELSE <<Act("basic_nack", channel, pending_event.delivery_tag, FALSE, "")>>

\* the event ids the kernel can name: every id a listener can derive, and one
\* that no listener derives
ProcessedIds ==
    {get_event_id(e, t) : e \in EventIds, t \in 1..MaxDeliveries} \cup {"unknown--0"}

IncomingCloudEventProcessed ==
    /\ running
    /\ \E event_id \in ProcessedIds, result \in ProcessingResult :
        /\ out' = Effects("main",
                          [type |-> "IncomingCloudEventProcessed", event_id |-> event_id,
                           result |-> result],
                          ack_nack_pending_event(configuration_option, pending_deliveries,
                                                 event_id, result),
                          <<>>)
        /\ resolved' = resolved \cup ({event_id} \cap DOMAIN pending_deliveries)
    /\ UNCHANGED <<running, connection_option, configuration_option, pending_deliveries,
                   listeners, nconn, origin,
                       lock, main_pc, amqp_inbox, outside_amqp>>

\* --------------------------------------------------------- other messages
HandleInit ==
    /\ running
    /\ out' = Effects("main", [type |-> "Init"], <<>>, <<>>)
    /\ UNCHANGED <<running, connection_option, configuration_option, pending_deliveries,
                   listeners, nconn, origin, resolved,
                       lock, main_pc, amqp_inbox, outside_amqp>>

\* a catch-all arm that answers the kernel and forgets the configuration
HandleOther_answers ==
    /\ running
    /\ \E t \in {"IncomingCloudEvent", "OutgoingCloudEventProcessed"} :
        out' = Effects("main", [type |-> t], <<>>,
                       <<OutgoingCloudEventProcessed(PortId, "", "PermanentError")>>)
    /\ configuration_option' = NoOptions
    /\ UNCHANGED <<running, connection_option, pending_deliveries,
                   listeners, nconn, origin, resolved,
                       lock, main_pc, amqp_inbox, outside_amqp>>

\* the catch-all arm: a variant the port has no reaction for
HandleOther ==
    /\ running
    /\ \E t \in {"IncomingCloudEvent", "OutgoingCloudEventProcessed"} :
        out' = Effects("main", [type |-> t], <<>>, <<>>)
    /\ UNCHANGED <<running, connection_option, configuration_option, pending_deliveries,
                   listeners, nconn, origin, resolved,
                       lock, main_pc, amqp_inbox, outside_amqp>>

\* ------------------------------------------------------ broadcast router
\* what the kernel can send to the router
RouterMessages ==
    {[type |-> "Init", outputs |-> {}, delivery_guarantee |-> "Unspecified"]}
    \cup {[type |-> "ConfigUpdated", outputs |-> o, delivery_guarantee |-> "Unspecified"] :
             o \in {{"A", "B", "C"}, {"A"}}}
    \cup {[type |-> "IncomingCloudEvent", outputs |-> {}, delivery_guarantee |-> g] :
             g \in {"Unspecified", "AtLeastOnce"}}

\* the kernel sends a message to the router's inbox
KernelSendsToRouter ==
    /\ Len(router_inbox) < MaxInbox
    /\ \E m \in RouterMessages : router_inbox' = Append(router_inbox, m)
    /\ out' = Effects("kernel", [type |-> "ToRouter"], <<>>, <<>>)
    /\ UNCHANGED <<amqp_vars, unix_vars, router_pc, router_sent>>

\* start_routing: logs "start broadcast router" and returns; it never
\* receives from its inbox and never sends
start_routing ==
    /\ router_pc = "start"
    /\ router_pc' = "returned"
    /\ out' = Effects("router", [type |-> "start_routing"], <<>>, <<>>)
    /\ UNCHANGED <<amqp_vars, unix_vars, router_inbox, router_sent>>

\* ------------------------------------------------- unix-socket input port
\* InternalServerId of the unix-socket port
UnixId == "unix"

\* socket paths a configuration can name
SocketPaths == {1, 2}

\* CloudEventRoutingArgs::default()
default_args == "Unspecified"

\* the IncomingCloudEvent built with the wrong guarantee
UnixIncomingCloudEvent_at_least_once(id, cloud_event) ==
    [type |-> "IncomingCloudEvent", routing_id |-> id, incoming_id |-> id,
     cloud_event |-> cloud_event, delivery_guarantee |-> "AtLeastOnce"]

\* the IncomingCloudEvent that liten_to_stream builds for a line
UnixIncomingCloudEvent(id, cloud_event) ==
    [type |-> "IncomingCloudEvent", routing_id |-> id, incoming_id |-> id,
     cloud_event |-> cloud_event, delivery_guarantee |-> default_args]

\* what the kernel can put into the port's inbox
UnixMessages ==
    {[type |-> "Init", config |-> 0, event_id |-> "", result |-> ""]}
    \cup {[type |-> "ConfigUpdated", config |-> c, event_id |-> "", result |-> ""] :
             c \in SocketPaths \cup {0}}
    \cup {[type |-> "IncomingCloudEventProcessed", config |-> 0, event_id |-> e, result |-> r] :
             e \in {"a--1"}, r \in {"Successful", "TransientError"}}
    \cup {[type |-> "OutgoingCloudEvent", config |-> 0, event_id |-> "out-1", result |-> ""]}

\* where the loop goes after the mailbox poll: into liten_to_stream if a
\* listener is set
AfterPoll(l) == IF l # 0 THEN "accept" ELSE "receive_timeout"

\* the kernel sends a message to the port's inbox
KernelSendsToUnix ==
    /\ Len(inbox) < MaxInbox
    /\ \E m \in UnixMessages : inbox' = Append(inbox, m)
    /\ out' = Effects("kernel", [type |-> "ToUnix"], <<>>, <<>>)
    /\ UNCHANGED <<amqp_vars, router_vars, listener, stream, unix_pc>>

\* the kernel sends the port its next message once the port has taken the
\* previous one
KernelSendsToIdleUnix ==
    /\ inbox = <<>>
    /\ KernelSendsToUnix

\* inbox.receive_timeout() yields a message, which is handled; config 0
\* stands for a Config that is not a Config::String
UnixReceive ==
    /\ unix_pc = "receive_timeout"
    /\ inbox # <<>>
    /\ inbox' = Tail(inbox)
    /\ LET m == Head(inbox) IN
        /\ out' = Effects("unix", m, <<>>, <<>>)
        /\ IF m.type = "ConfigUpdated" /\ m.config # 0
           THEN \/ \* UnixListener::bind succeeds
                   /\ listener' = m.config
                   /\ unix_pc' = "accept"
                \/ \* bind fails: unwrap panics
                   /\ unix_pc' = "panicked"
                   /\ UNCHANGED listener
           ELSE /\ UNCHANGED listener
                /\ unix_pc' = AfterPoll(listener)
    /\ UNCHANGED <<amqp_vars, router_vars, stream>>

\* inbox.receive_timeout() yields nothing within 100 ms
UnixTimeout ==
    /\ unix_pc = "receive_timeout"
    /\ inbox = <<>>
    /\ listener # 0
    /\ unix_pc' = "accept"
    /\ out' = Effects("unix", [type |-> "Timeout"], <<>>, <<>>)
    /\ UNCHANGED <<amqp_vars, router_vars, listener, stream, inbox>>

\* liten_to_stream without stream: listener.accept() returns a connection,
\* or an error, which panics
UnixAccept ==
    /\ unix_pc = "accept"
    /\ \/ /\ stream' = TRUE
          /\ unix_pc' = "read_line"
          /\ out' = Effects("unix", [type |-> "Accept"], <<>>, <<>>)
       \/ /\ unix_pc' = "panicked"
          /\ out' = Effects("unix", [type |-> "AcceptError"], <<>>, <<>>)
          /\ UNCHANGED stream
    /\ UNCHANGED <<amqp_vars, router_vars, listener, inbox>>

\* liten_to_stream with a stream: one read_line. A line that is a CloudEvent
\* is forwarded, another line is logged; at end of stream or on a read error
\* the stream is dropped and the loop is back at the mailbox
UnixReadLine ==
    /\ unix_pc = "read_line"
    /\ \/ \E e \in EventIds :
             /\ out' = Effects("unix", [type |-> "Line"], <<>>,
                               <<UnixIncomingCloudEvent(UnixId, e)>>)
             /\ UNCHANGED <<stream, unix_pc>>
       \/ /\ out' = Effects("unix", [type |-> "MalformedLine"], <<>>, <<>>)
          /\ UNCHANGED <<stream, unix_pc>>
       \/ \E t \in {"EndOfStream", "ReadError"} :
             /\ out' = Effects("unix", [type |-> t], <<>>, <<>>)
             /\ stream' = FALSE
             /\ unix_pc' = "receive_timeout"
    /\ UNCHANGED <<amqp_vars, router_vars, listener, inbox>>

\* ------------------------------------------- the Mutex around the table
\* the thread of port_amqp_start
MainThread == Handle(0, "main")

\* a Mutex that lets every caller of lock() in
MutexAvailable_always == TRUE

\* Mutex::lock() returns only when no other thread holds the guard
MutexAvailable == lock = NoHolder

\* the listeners that are between consumer.next() and the insert
InReceiveMessage ==
    {h \in Conns \X ConsumeNames :
        listeners[h].pc \in {"lock_len", "len", "lock_insert", "insert"}}

\* consumer.next() yields a delivery whose payload is the CloudEvent with id
\* e; receive_message runs up to its first lock()
ListenerDelivery ==
    \E c \in Conns, n \in ConsumeNames, e \in EventIds :
        /\ listeners[c, n].pc = "wait"
        /\ Delivered(Conns \X ConsumeNames) + Cardinality(InReceiveMessage) < MaxDeliveries
        /\ listeners' = [listeners EXCEPT ![c, n].pc = "lock_len", ![c, n].event_id = e]
        /\ out' = Effects("listener",
                          [type |-> "Parsed", channel |-> Handle(c, n)], <<>>, <<>>)
        /\ UNCHANGED <<running, connection_option, configuration_option,
                       pending_deliveries, nconn, origin, resolved,
                       lock, main_pc, amqp_inbox, outside_amqp>>

\* pending_deliveries.clone().lock().unwrap() in receive_message, before
\* len() and before insert()
ListenerLock ==
    \E c \in Conns, n \in ConsumeNames :
        /\ listeners[c, n].pc \in {"lock_len", "lock_insert"}
        /\ MutexAvailable
        /\ lock' = Handle(c, n)
        /\ listeners' = [listeners EXCEPT ![c, n].pc =
                            IF @ = "lock_len" THEN "len" ELSE "insert"]
        /\ out' = Effects("listener",
                          [type |-> "Lock", channel |-> Handle(c, n)], <<>>, <<>>)
        /\ UNCHANGED <<running, connection_option, configuration_option,
                       pending_deliveries, nconn, origin, resolved,
                       main_pc, amqp_inbox, outside_amqp>>

\* info!("size: {}", ..len()): the table is read and the guard is dropped at
\* the end of the statement
ListenerLen ==
    \E c \in Conns, n \in ConsumeNames :
        /\ listeners[c, n].pc = "len"
        /\ lock' = NoHolder
        /\ listeners' = [listeners EXCEPT ![c, n].pc = "lock_insert"]
        /\ out' = Effects("listener",
                          [type |-> "Len", channel |-> Handle(c, n),
                           size |-> Cardinality(DOMAIN pending_deliveries)],
                          <<>>, <<>>)
        /\ UNCHANGED <<running, connection_option, configuration_option,
                       pending_deliveries, nconn, origin, resolved,
                       main_pc, amqp_inbox, outside_amqp>>

\* the insert; the guard is dropped at the end of the if condition
ListenerInsert ==
    \E c \in Conns, n \in ConsumeNames :
        /\ listeners[c, n].pc = "insert"
        /\ receive_message_insert(c, n, listeners[c, n].event_id)
        /\ lock' = NoHolder
        /\ UNCHANGED <<running, connection_option, configuration_option, nconn,
                       main_pc, amqp_inbox, outside_amqp>>

\* inbox.receive() yields an IncomingCloudEventProcessed
MainReceive ==
    /\ running
    /\ main_pc = AtReceive
    /\ \E event_id \in ProcessedIds, result \in {"Successful", "TransientError"} :
        main_pc' = [pc |-> "lock", event_id |-> event_id, result |-> result]
    /\ out' = Effects("main", [type |-> "Receive"], <<>>, <<>>)
    /\ UNCHANGED <<running, connection_option, configuration_option,
                   pending_deliveries, listeners, nconn, origin, resolved,
                   lock, amqp_inbox, outside_amqp>>

\* arc_pending_deliveries.lock().unwrap() in the IncomingCloudEventProcessed arm
MainLock ==
    /\ main_pc.pc = "lock"
    /\ MutexAvailable
    /\ lock' = MainThread
    /\ main_pc' = [main_pc EXCEPT !.pc = "ack_nack"]
    /\ out' = Effects("main", [type |-> "Lock"], <<>>, <<>>)
    /\ UNCHANGED <<running, connection_option, configuration_option,
                   pending_deliveries, listeners, nconn, origin, resolved,
                   amqp_inbox, outside_amqp>>

\* block_on(ack_nack_pending_event(..)) with the guard; the guard is dropped
\* at the end of the let statement
MainAckNack ==
    /\ main_pc.pc = "ack_nack"
    /\ out' = Effects("main",
                      [type |-> "IncomingCloudEventProcessed",
                       event_id |-> main_pc.event_id, result |-> main_pc.result],
                      ack_nack_pending_event(configuration_option, pending_deliveries,
                                             main_pc.event_id, main_pc.result),
                      <<>>)
    /\ resolved' = resolved \cup ({main_pc.event_id} \cap DOMAIN pending_deliveries)
    /\ lock' = NoHolder
    /\ main_pc' = AtReceive
    /\ UNCHANGED <<running, connection_option, configuration_option,
                   pending_deliveries, listeners, nconn, origin, amqp_inbox, outside_amqp>>

\* inbox.receive() yields a ConfigUpdated
MainConfigUpdated ==
    /\ main_pc = AtReceive
    /\ ConfigUpdated(ConsumeConfigs)
    /\ UNCHANGED amqp_inbox

\* ------------------------------------------------ the AMQP port's mailbox
\* the configurations the kernel sends: one that parses and names the queue
\* q1, and one whose delivery_guarantee token is not recognised
MailboxConfig ==
    [good |-> GoodConfig(<<Entry("q1", "AtLeastOnce")>>, <<>>),
     bad |-> GoodConfig(<<Entry("q1", "unrecognized")>>, <<>>)]

\* what the kernel puts into the port's mailbox
AmqpMessages ==
    {[type |-> "IncomingCloudEventProcessed", event_id |-> get_event_id(e, 1),
      result |-> "Successful", config |-> "none"] : e \in EventIds}
    \cup {[type |-> "ConfigUpdated", event_id |-> "", result |-> "", config |-> c] :
             c \in DOMAIN MailboxConfig}

\* the kernel sends a message to the port
KernelSendsToAmqp ==
    /\ amqp_inbox.taken + Len(amqp_inbox.queue) < MaxInbox
    /\ \E m \in AmqpMessages :
          amqp_inbox' = [amqp_inbox EXCEPT !.queue = Append(@, m)]
    /\ out' = Effects("kernel", [type |-> "ToAmqp"], <<>>, <<>>)
    /\ UNCHANGED <<running, connection_option, configuration_option,
                   pending_deliveries, listeners, nconn, origin, resolved,
                   lock, main_pc, outside_amqp>>

\* inbox.receive() returns the oldest message of the mailbox: a ConfigUpdated
\* is handled at once, an IncomingCloudEventProcessed up to its lock()
MainReceiveMailbox ==
    /\ running
    /\ main_pc = AtReceive
    /\ amqp_inbox.queue # <<>>
    /\ amqp_inbox' = [queue |-> Tail(amqp_inbox.queue), taken |-> amqp_inbox.taken + 1]
    /\ LET m == Head(amqp_inbox.queue) IN
       IF m.type = "ConfigUpdated"
       THEN ConfigUpdated({MailboxConfig[m.config]})
       ELSE /\ main_pc' = [pc |-> "lock", event_id |-> m.event_id, result |-> m.result]
            /\ out' = Effects("main", [type |-> "Receive"], <<>>, <<>>)
            /\ UNCHANGED <<running, connection_option, configuration_option,
                           pending_deliveries, listeners, nconn, origin, resolved,
                           lock, outside_amqp>>

\* inbox.receive() yields a ConfigUpdated that names the queue q1
ConfigUpdatedOneQueue ==
    /\ ConfigUpdated({GoodConfig(<<Entry("q1", "AtLeastOnce")>>, <<>>)})
    /\ UNCHANGED amqp_inbox

\* --------------------------------------------------------- specifications
ConfigUpdatedConsume ==
    /\ ConfigUpdated(ConsumeConfigs \cup BadConfigs)
    /\ UNCHANGED amqp_inbox

ConfigUpdatedPublish ==
    /\ ConfigUpdated(PublishConfigs \cup BadConfigs)
    /\ UNCHANGED amqp_inbox

\* the port as an input port: configurations with consume channels
Next ==
    \/ HandleInit
    \/ ConfigUpdatedConsume
    \/ IncomingCloudEventProcessed
    \/ HandleOther
    \/ ListenerAdmit
    \/ ListenerMalformed
    \/ ListenerInvalidUtf8
    \/ ListenerSend

Spec == Init /\ [][Next]_vars

\* the port as an output port: configurations with publish channels
NextPublish ==
    \/ HandleInit
    \/ ConfigUpdatedPublish
    \/ OutgoingCloudEvent
    \/ HandleOther

SpecPublish == Init /\ [][NextPublish]_vars

\* the broadcast router and the kernel feeding it
NextRouter ==
    \/ start_routing
    \/ KernelSendsToRouter

SpecRouter == Init /\ [][NextRouter]_vars

\* the unix-socket input port
NextUnix ==
    \/ KernelSendsToUnix
    \/ UnixReceive
    \/ UnixTimeout
    \/ UnixAccept
    \/ UnixReadLine

SpecUnix == Init /\ [][NextUnix]_vars

\* fair scheduling of the port's thread: when receive_timeout can return, it
\* does. Whether a client connects, writes or disconnects (UnixAccept,
\* UnixReadLine) is up to the client
FairUnix ==
    /\ WF_vars(UnixReceive)
    /\ WF_vars(UnixTimeout)

SpecUnixFair == Init /\ [][NextUnix]_vars /\ FairUnix

\* the AMQP port as an input port and the unix-socket input port, each
\* receiving messages from the kernel
NextPorts ==
    \/ HandleInit
    \/ HandleOther
    \/ ConfigUpdatedOneQueue
    \/ ListenerAdmit
    \/ ListenerSend
    \/ KernelSendsToIdleUnix
    \/ UnixReceive
    \/ UnixTimeout
    \/ UnixAccept
    \/ UnixReadLine

SpecPorts == Init /\ [][NextPorts]_vars

\* the AMQP port with every lock() and every table access as a step of its own
NextLock ==
    \/ MainConfigUpdated
    \/ MainReceive
    \/ MainLock
    \/ MainAckNack
    \/ ListenerDelivery
    \/ ListenerLock
    \/ ListenerLen
    \/ ListenerInsert
    \/ ListenerSend

SpecLock == Init /\ [][NextLock]_vars

\* the AMQP port taking its messages from the mailbox, with every lock() and
\* every table access as a step of its own
NextMailbox ==
    \/ KernelSendsToAmqp
    \/ MainReceiveMailbox
    \/ MainLock
    \/ MainAckNack
    \/ ListenerDelivery
    \/ ListenerLock
    \/ ListenerLen
    \/ ListenerInsert
    \/ ListenerSend

\* fair scheduling: a thread that can step does step, and a thread that finds
\* the Mutex free again and again gets it; the transport calls inside the
\* steps return. The kernel and the broker need not send anything.
FairMailbox ==
    /\ WF_vars(MainReceiveMailbox)
    /\ SF_vars(MainLock)
    /\ WF_vars(MainAckNack)
    /\ \A h \in Conns \X ConsumeNames :
           SF_vars(ListenerLock /\ lock' = Handle(h[1], h[2]))
    /\ WF_vars(ListenerLen)
    /\ WF_vars(ListenerInsert)
    /\ WF_vars(ListenerSend)

SpecMailbox == Init /\ [][NextMailbox]_vars /\ FairMailbox

\* ================================================================ claims
IsProcessed(o) == o.by = "main" /\ o.msg.type = "IncomingCloudEventProcessed"

\* C1: an entry is removed from the pending-delivery table when its
\* IncomingCloudEventProcessed outcome is handled, so no id whose outcome was
\* handled since its admission is still in the table.
C1_ResolvedEntryRemoved == resolved \cap DOMAIN pending_deliveries = {}

\* C2: handling IncomingCloudEventProcessed again for an id that was already
\* resolved (and not admitted again since) issues no transport action.
C2_SecondResolutionIsNoOp ==
    [][(IsProcessed(out') /\ out'.msg.event_id \in resolved) => out'.acts = <<>>]_vars

ExpectedAct(result, channel, tag) ==
    IF result = "Successful" THEN Act("basic_ack", channel, tag, FALSE, "")
    ELSE IF result = "TransientError" THEN Act("basic_nack", channel, tag, TRUE, "")
    ELSE Act("basic_nack", channel, tag, FALSE, "")

\* C3: resolving an existing entry issues exactly one transport action, chosen
\* by the result (Successful: ack; TransientError: nack with requeue;
\* PermanentError: nack without requeue), with the entry's own delivery tag, on
\* the consume channel the delivery arrived on.
C3_ResolveActsOnceOnOwnChannel ==
    [][(IsProcessed(out') /\ out'.msg.event_id \in DOMAIN pending_deliveries)
        => out'.acts = <<ExpectedAct(out'.msg.result,
                                     origin[out'.msg.event_id].channel,
                                     pending_deliveries[out'.msg.event_id].delivery_tag)>>]_vars

\* C4: the table never holds an entry for a delivery admitted on a channel
\* whose delivery guarantee does not require acknowledgment.
C4_NoEntryWithoutAcknowledgment ==
    \A k \in DOMAIN pending_deliveries : requires_acknowledgment(origin[k].delivery_guarantee)

\* C5: two distinct deliveries admitted by the port never map to the same
\* table key: the key derived for a delivery was derived for no earlier one.
C5_DistinctDeliveriesDistinctKeys ==
    [][(out'.by = "listener" /\ out'.msg.type = "Delivery")
        => out'.msg.event_id \notin DOMAIN origin]_vars

\* C6: once a ConfigUpdated has been handled, the table holds no entry that
\* was admitted on the connection that was active before it.
C6_ReconnectPurgesOldEntries ==
    [][(out'.by = "main" /\ out'.msg.type = "ConfigUpdated" /\ out'.msg.parsed
        /\ connection_option # 0)
        => \A k \in DOMAIN pending_deliveries' :
               origin'[k].channel.conn # connection_option]_vars

\* C7: an outcome for an event admitted on a previous connection never makes
\* the port ack or nack on a channel of another connection: every ack/nack goes
\* to the connection the entry's delivery arrived on.
C7_NoAckOnOtherConnection ==
    IsProcessed(out) =>
        \A i \in DOMAIN out.acts :
            out.acts[i].channel.conn = origin[out.msg.event_id].channel.conn

\* C8: handling IncomingCloudEventProcessed for an id with no entry in the
\* table issues no transport action, sends nothing to the kernel, leaves the
\* table and the connection / configuration state unchanged, and leaves the
\* main loop running.
C8_UnknownIdIsNoOp ==
    [][(IsProcessed(out') /\ out'.msg.event_id \notin DOMAIN pending_deliveries)
        => /\ out'.acts = <<>>
           /\ out'.sent = <<>>
           /\ running'
           /\ UNCHANGED <<pending_deliveries, connection_option, configuration_option>>]_vars

\* C8 happens: an outcome for an unknown id was handled while the port was
\* configured and the table held other entries
C8_Witness ==
    /\ IsProcessed(out)
    /\ out.msg.event_id \notin DOMAIN pending_deliveries
    /\ pending_deliveries # <<>>
    /\ configuration_option.set
    /\ DOMAIN configuration_option.consume_channels # {}

IsOutgoing(o) == o.by = "main" /\ o.msg.type = "OutgoingCloudEvent"

\* C9: for every OutgoingCloudEvent handled, configured or not, the port sends
\* exactly one OutgoingCloudEventProcessed for that event id if the routing
\* args' guarantee requires acknowledgment, and none otherwise.
C9_ProcessedIffAcknowledgmentRequired ==
    IsOutgoing(out) =>
        IF requires_acknowledgment(out.msg.delivery_guarantee)
        THEN /\ Len(out.sent) = 1
             /\ out.sent[1].type = "OutgoingCloudEventProcessed"
             /\ out.sent[1].event_id = out.msg.event_id
        ELSE out.sent = <<>>

\* C10 as stated: a reported Successful means every publish of the event was
\* confirmed with ack; a failed or nacked publish means TransientError.
C10_SuccessfulOnlyIfEveryPublishAcked ==
    IsOutgoing(out) =>
        \A i \in DOMAIN out.sent :
            /\ out.sent[i].result = "Successful"
                   => \A j \in DOMAIN out.acts : out.acts[j].confirmation = "ack"
            /\ (\E j \in DOMAIN out.acts : out.acts[j].confirmation \in {"error", "nack"})
                   => out.sent[i].result = "TransientError"

\* the configured guarantee of the publish channel a publish went to
PublishGuarantee(act) ==
    configuration_option.publish_channels[act.channel.name].delivery_guarantee

\* C10 amended: a reported Successful means no publish failed and every
\* publish on a channel whose configured guarantee requires acknowledgment was
\* confirmed with ack (a publish on another channel is not confirmed at all);
\* a failed or nacked publish means TransientError.
C10_SuccessfulOnlyIfRequiredConfirmsAcked ==
    IsOutgoing(out) =>
        \A i \in DOMAIN out.sent :
            /\ out.sent[i].result = "Successful"
                   => \A j \in DOMAIN out.acts :
                          /\ out.acts[j].confirmation # "error"
                          /\ requires_acknowledgment(PublishGuarantee(out.acts[j]))
                                 => out.acts[j].confirmation = "ack"
            /\ (\E j \in DOMAIN out.acts : out.acts[j].confirmation \in {"error", "nack"})
                   => out.sent[i].result = "TransientError"

\* C10 happens: Successful was reported for an event published to a channel
\* in confirm mode, which acked, and to a channel that confirms nothing
C10_Witness ==
    /\ IsOutgoing(out)
    /\ Len(out.sent) = 1
    /\ out.sent[1].result = "Successful"
    /\ \E j \in DOMAIN out.acts : out.acts[j].confirmation = "ack"
    /\ \E j \in DOMAIN out.acts : out.acts[j].confirmation = "not_requested"

IsConfigUpdated(o) == o.by = "main" /\ o.msg.type = "ConfigUpdated"

\* C11: a ConfigUpdated whose config does not parse into the port's options
\* does not terminate the port: its loop is still running afterwards.
C11_ParseFailureKeepsPortRunning ==
    (IsConfigUpdated(out) /\ ~out.msg.parsed) => running

\* C12: a ConfigUpdated whose connect or channel set-up fails sends nothing to
\* the kernel, leaves the port running with no connection and no options; a
\* ConfigUpdated whose set-up succeeds, after a failure as well, gives the
\* port a connection and options.
C12_SetupFailureLeavesUninitialized ==
    [][(IsConfigUpdated(out') /\ out'.msg.parsed)
        => /\ out'.sent = <<>>
           /\ running'
           /\ IF out'.msg.ok
              THEN /\ connection_option' # 0
                   /\ connection_option' # connection_option
                   /\ configuration_option'.set
              ELSE /\ connection_option' = 0
                   /\ configuration_option' = NoOptions]_vars

\* C12 happens: the connection was made, the set-up of a later channel failed
\* after a listener had been spawned, and the port is uninitialized again
\* after having been configured
C12_Witness ==
    /\ IsConfigUpdated(out) /\ out.msg.parsed /\ ~out.msg.ok
    /\ running
    /\ connection_option = 0
    /\ configuration_option = NoOptions
    /\ nconn = 2
    /\ \E n \in ConsumeNames : listeners[2, n].pc # "none"

\* C13: once a second ConfigUpdated with another option set has been handled,
\* no listener started for the first set admits an event or sends an
\* IncomingCloudEvent (stated for the sets that differ for sure: the second
\* one does not name the listener's queue), and every ack, nack and publish
\* uses a channel of the connection made for the second set.
C13_OnlyLatestSetActive ==
    /\ (/\ out.by = "listener"
        /\ out.msg.type \in {"Delivery", "Send"}
        /\ connection_option > out.msg.channel.conn)
           => out.msg.channel.name \in DOMAIN configuration_option.consume_channels
    /\ (out.by = "main" /\ connection_option # 0)
           => \A i \in DOMAIN out.acts : out.acts[i].channel.conn = connection_option

\* C14: an inbound message that does not deserialize to a CloudEvent makes
\* the listener send nothing and leaves every consumer listener, the one that
\* received it included, consuming as before.
C14_MalformedPayloadIsolated ==
    [][(out'.by = "listener" /\ out'.msg.type \in {"Malformed", "InvalidUtf8"})
        => /\ out'.sent = <<>>
           /\ \A c \in Conns, n \in ConsumeNames :
                  listeners'[c, n].pc = listeners[c, n].pc]_vars

\* the identifiers written out for the ids and tags of this model
ExpectedKey == [e \in {"a"} |-> <<"a--1", "a--2", "a--3", "a--4">>]

ListenerAdmits(c, n) == listeners[c, n].pc = "wait" /\ listeners'[c, n].pc = "send"

ListenerSends(c, n) == listeners[c, n].pc = "send" /\ listeners'[c, n].pc = "wait"

\* C17: admitting the CloudEvent with external id e delivered with tag t puts
\* the entry under the key e--t, recording tag t and the name of the consume
\* channel it arrived on, and the IncomingCloudEvent sent for it carries e--t.
C17_KeyIsIdDashDashTag ==
    [][\A c \in Conns, n \in ConsumeNames :
        /\ ListenerAdmits(c, n) =>
              LET e == listeners'[c, n].event_id
                  t == listeners[c, n].next_tag
                  key == ExpectedKey[e][t]
              IN  /\ listeners'[c, n].delivery_tag = t
                  /\ key \in DOMAIN pending_deliveries'
                  /\ pending_deliveries'[key] = [consume_channel_id |-> n, delivery_tag |-> t]
        /\ ListenerSends(c, n) =>
              LET l == listeners[c, n] IN
              /\ Len(out'.sent) = 1
              /\ out'.sent[1].type = "IncomingCloudEvent"
              /\ out'.sent[1].event_id = ExpectedKey[l.event_id][l.delivery_tag]]_vars

\* C17 happens: the second delivery of a channel, event "a" with tag 2, was
\* admitted under "a--2" and its IncomingCloudEvent was sent
C17_Witness ==
    /\ out.by = "listener" /\ out.msg.type = "Send"
    /\ out.sent[1].event_id = "a--2"
    /\ "a--2" \in DOMAIN pending_deliveries
    /\ pending_deliveries["a--2"].delivery_tag = 2

\* C18: when a listener sends IncomingCloudEvent with identifier x under a
\* guarantee that requires acknowledgment, the table already contains x.
C18_RegisteredBeforeSent ==
    [][\A c \in Conns, n \in ConsumeNames :
        (ListenerSends(c, n) /\ requires_acknowledgment(listeners[c, n].delivery_guarantee))
            => /\ Len(out'.sent) = 1
               /\ out'.sent[1].event_id \in DOMAIN pending_deliveries]_vars

\* C18 happens: an IncomingCloudEvent was sent under AtLeastOnce while the
\* main loop had replaced the configuration in between
C18_Witness ==
    /\ out.by = "listener" /\ out.msg.type = "Send"
    /\ out.sent[1].delivery_guarantee = "AtLeastOnce"
    /\ out.sent[1].event_id \in DOMAIN pending_deliveries
    /\ connection_option # out.msg.channel.conn

\* C19: an insert under a key that is already in the table is detected and
\* reported as an error: the new delivery takes the entry's place, but not
\* silently.
C19_CollisionIsReported ==
    [][(/\ out'.by = "listener"
        /\ out'.msg.type = "Delivery"
        /\ out'.msg.event_id \in DOMAIN pending_deliveries)
        => /\ out'.msg.already_in_table
           /\ pending_deliveries'[out'.msg.event_id].consume_channel_id
                  = out'.msg.channel.name]_vars

\* C19 happens: a delivery was stored under the key of an entry of another
\* channel and the error was logged
C19_Witness ==
    /\ out.by = "listener" /\ out.msg.type = "Delivery"
    /\ out.msg.already_in_table
    /\ \E c \in Conns, n \in ConsumeNames :
          /\ Handle(c, n) # out.msg.channel
          /\ listeners[c, n].pc # "none"
          /\ listeners[c, n].next_tag > 1

OutgoingTo(output, g) ==
    [type |-> "OutgoingCloudEvent", destination |-> output, delivery_guarantee |-> g]

\* C15: the broadcast router, configured with outputs {A, B, C} and given one
\* IncomingCloudEvent, has sent exactly three OutgoingCloudEvent messages once
\* it is done, one addressed to each output, each with the routing arguments
\* of the incoming event.
C15_RouterFanOut ==
    \A g \in {"Unspecified", "AtLeastOnce"} :
        (/\ router_pc = "returned"
         /\ router_inbox =
                <<[type |-> "ConfigUpdated", outputs |-> {"A", "B", "C"},
                   delivery_guarantee |-> "Unspecified"],
                  [type |-> "IncomingCloudEvent", outputs |-> {}, delivery_guarantee |-> g]>>)
            => /\ Len(router_sent) = 3
               /\ {router_sent[i] : i \in DOMAIN router_sent}
                      = {OutgoingTo(o, g) : o \in {"A", "B", "C"}}

\* C16: the unix-socket input port only knows the no-acknowledgment
\* guarantee: whatever it sends is an IncomingCloudEvent with the default
\* routing args, which require no acknowledgment (so never an
\* IncomingCloudEventProcessed), and an IncomingCloudEventProcessed it
\* receives changes neither its listener nor its stream and sends nothing.
C16_UnixPortNeverAcknowledges ==
    [][out'.by = "unix"
        => /\ \A i \in DOMAIN out'.sent :
                  /\ out'.sent[i].type = "IncomingCloudEvent"
                  /\ out'.sent[i].delivery_guarantee = default_args
                  /\ ~requires_acknowledgment(out'.sent[i].delivery_guarantee)
           /\ (unix_pc = "receive_timeout" /\ inbox # <<>>
               /\ Head(inbox).type = "IncomingCloudEventProcessed")
                  => /\ out'.sent = <<>>
                     /\ UNCHANGED <<listener, stream>>]_vars

\* C16 happens: the port forwarded a line as IncomingCloudEvent after it had
\* been configured, while an IncomingCloudEventProcessed waits in its inbox
C16_Witness ==
    /\ out.by = "unix" /\ out.msg.type = "Line"
    /\ Len(out.sent) = 1
    /\ \E i \in DOMAIN inbox : inbox[i].type = "IncomingCloudEventProcessed"

\* the threads that are inside an access to the pending-delivery table
InTable ==
    {Handle(h[1], h[2]) : h \in {x \in Conns \X ConsumeNames :
                                    listeners[x].pc \in {"len", "insert"}}}
    \cup (IF main_pc.pc = "ack_nack" THEN {MainThread} ELSE {})

\* C20: every read and write of the pending-delivery table, by the main loop
\* and by the listener tasks, happens while the thread holds the one Mutex:
\* at most one thread is inside a table access, and it is the lock's holder.
C20_TableAccessUnderLock ==
    /\ Cardinality(InTable) <= 1
    /\ \A t \in InTable : lock = t

\* C20 happens: the main loop is inside ack_nack_pending_event while two
\* listener tasks wait in lock()
C20_Witness ==
    /\ InTable = {MainThread}
    /\ Cardinality({h \in Conns \X ConsumeNames :
                       listeners[h].pc \in {"lock_len", "lock_insert"}}) >= 2

\* C21: a port that receives Init or a variant it has no reaction for sends
\* nothing, leaves its connection, configuration and pending-delivery state
\* (for the unix-socket port: its listener and stream) unchanged and goes on
\* with its loop.
C21_InitAndUnknownAreNoOps ==
    [][/\ (out'.by = "main"
           /\ out'.msg.type \in {"Init", "IncomingCloudEvent", "OutgoingCloudEventProcessed"})
          => /\ out'.sent = <<>>
             /\ out'.acts = <<>>
             /\ UNCHANGED <<connection_option, configuration_option,
                            pending_deliveries, listeners>>
             /\ running'
       /\ (out'.by = "unix"
           /\ out'.msg.type \in {"Init", "IncomingCloudEventProcessed", "OutgoingCloudEvent"})
          => /\ out'.sent = <<>>
             /\ UNCHANGED <<listener, stream>>
             /\ unix_pc' = AfterPoll(listener)]_vars

\* C21 happens: the AMQP port, connected and with a pending delivery, has
\* just taken a variant it has no reaction for, while the unix-socket port
\* has a listener
C21_Witness ==
    /\ out.by = "main"
    /\ out.msg.type \in {"IncomingCloudEvent", "OutgoingCloudEventProcessed"}
    /\ connection_option # 0
    /\ configuration_option.set
    /\ pending_deliveries # <<>>
    /\ listener # 0

\* a publish that makes send_cloud_event return Err: the publish failed, or
\* it was not acked although its channel's guarantee requires acknowledgment
PublishFailed(act) ==
    \/ act.confirmation = "error"
    \/ requires_acknowledgment(PublishGuarantee(act)) /\ act.confirmation # "ack"

\* C22: for one OutgoingCloudEvent the port publishes to its configured
\* publish channels one after another, each at most once, and stops at the
\* first that fails; the outcome it computes is Successful only if the event
\* was published to every configured publish channel and no publish failed.
C22_PublishStopsAtFirstFailure ==
    (IsOutgoing(out) /\ out.msg.configured) =>
        LET acts == out.acts
            names == DOMAIN configuration_option.publish_channels
        IN  /\ \A i \in DOMAIN acts :
                   /\ acts[i].op = "basic_publish"
                   /\ acts[i].channel.name \in names
                   /\ \A j \in DOMAIN acts : i # j => acts[i].channel # acts[j].channel
                   /\ PublishFailed(acts[i]) => i = Len(acts)
            /\ out.msg.result \in {"Successful", "TransientError"}
            /\ out.msg.result = "Successful"
                   => /\ {acts[i].channel.name : i \in DOMAIN acts} = names
                      /\ \A i \in DOMAIN acts : ~PublishFailed(acts[i])
            /\ (\E i \in DOMAIN acts : PublishFailed(acts[i]))
                   => out.msg.result = "TransientError"

\* C22 happens: with two publish channels configured, the first publish
\* failed and the second channel was never published to
C22_Witness ==
    /\ IsOutgoing(out) /\ out.msg.configured
    /\ Cardinality(DOMAIN configuration_option.publish_channels) = 2
    /\ Len(out.acts) = 1
    /\ PublishFailed(out.acts[1])
    /\ out.msg.result = "TransientError"

\* message number k of the mailbox waits in it and is an
\* IncomingCloudEventProcessed
WaitsInMailbox(k) ==
    /\ k - amqp_inbox.taken \in DOMAIN amqp_inbox.queue
    /\ amqp_inbox.queue[k - amqp_inbox.taken].type = "IncomingCloudEventProcessed"

\* the main loop has taken message number k and is through with it
Handled(k) ==
    \/ amqp_inbox.taken > k
    \/ amqp_inbox.taken = k /\ main_pc = AtReceive

\* C23: no deadlock over the Mutex of the table: the main loop does not hold it
\* while it is in inbox.receive(); under fair scheduling every listener that
\* waits in lock() admits its delivery, and every IncomingCloudEventProcessed in
\* the mailbox is handled.
C23_NoDeadlockOverLock ==
    /\ [](main_pc = AtReceive => lock # MainThread)
    /\ \A h \in Conns \X ConsumeNames :
           (listeners[h].pc \in {"lock_len", "lock_insert"}) ~> (listeners[h].pc = "send")
    /\ \A k \in 1..MaxInbox : WaitsInMailbox(k) ~> Handled(k)

\* C24: once the unix-socket port has a listener, a message the kernel places
\* in its mailbox is eventually taken and handled, whatever the clients of the
\* socket do.
C24_MailboxPolledWhileListening ==
    (listener # 0 /\ inbox # <<>> /\ out.by = "kernel")
        ~> (out.by = "unix" /\ out.msg \in UnixMessages)

====
